---- MODULE Spec2Model ----
(***************************************************************************)
(* Market-Watcher: the two ingestion pipelines, gnews-service (news by     *)
(* topic, identity = article URL) and scraping-worker (fundamentals by     *)
(* ticker, identity = symbol).  One pipeline instance is one sequential    *)
(* process: __init__ connects to the broker, run() cycles over the         *)
(* configured keys, publish_* writes to the broker and reconnects on       *)
(* failure, close() releases the resources.  The broker and the operator   *)
(* (KeyboardInterrupt) are the environment.                                *)
(***************************************************************************)
EXTENDS Naturals, Sequences, FiniteSets, TLC

VARIABLES
    pipeline,        \* "news" (gnews-service) or "fund" (scraping-worker)
    pc,              \* position of the process
    brokerUp,        \* environment: the broker accepts connections
    connOpen,        \* self.connection is an open connection
    chanOpen,        \* self.channel is an open channel
    orphanOpen,      \* an earlier connection, no longer referenced, is still open
    declared,        \* exchange declared, queue declared and bound (a connect() succeeded)
    sessionOpen,     \* self.session (scraping-worker) is open
    attempt,         \* connect_rabbitmq: the loop variable `attempt`
    slept,           \* connect_rabbitmq: seconds slept in the call
    connectOutcome,  \* connect_rabbitmq: "none" (running, or no call), "ok" (returned),
                     \* "raised"; the three are kept until run() takes its next step
    k,               \* run: index of the current key in the configured list
    remaining,       \* run: records of the current fetch not yet iterated
    url,             \* run: identity of the record last taken from the fetch result
                     \* (Unbound before the first record)
    processed_urls,  \* run: the dedup cache (gnews-service only)
    err,             \* run: the exception being handled by `except Exception`
    exitCode,        \* process exit status once pc = "exited"
    invoked,         \* history: identities passed to publish since the last prune
    delivered,       \* history: identities whose broker write succeeded
    publishOutcome,  \* history: what publish did for the record last taken: "none"
                     \* (not called, or not yet back), "written", "dropped", "raised"
    reconnects,      \* history: connect_rabbitmq calls publish made for that record
    lastMark,        \* history: what the last mark did: "none", "added", "pruned"
    lastSleep,       \* history: seconds of the last time.sleep run() finished
                     \* (0 before the first)
    interrupted      \* history: a KeyboardInterrupt was delivered

vars == <<pipeline, pc, brokerUp, connOpen, chanOpen, orphanOpen, declared,
          sessionOpen, attempt, slept, connectOutcome, k, remaining, url,
          processed_urls, err, exitCode, invoked, delivered, publishOutcome,
          reconnects, lastMark, lastSleep, interrupted>>

conn    == <<connOpen, chanOpen, orphanOpen, declared>>
retry   == <<attempt, slept, connectOutcome>>
hist    == <<invoked, delivered, publishOutcome, reconnects, lastMark>>

----------------------------------------------------------------------------
(* Bounds of the model.  The key lists (12 topics, 10 symbols) and the      *)
(* cache limits (10000 / 5000) are scaled down; the code treats them        *)
(* uniformly in their size.                                                 *)
NumKeys == 2
NumUrls == 3
MaxArticles == 2
CacheCeiling == 2
CacheFloor == 1

(* Program constants. *)
max_retries == 5
retry_delay == 5
CHECK_INTERVAL == 300
cooldown_delay == 30

\* Mutant: both pipelines wait the same time between keys.
KeyDelay_Same(p) == IF p \in {"news", "fund"} THEN 2 ELSE 0

\* time.sleep(2) between topics, time.sleep(3) between symbols.
KeyDelay(p) == IF p = "news" THEN 2 ELSE 3

Min(a, b) == IF a < b THEN a ELSE b

Pipelines == {"news", "fund"}

\* The loop variable before the first record is taken.
Unbound == "<unbound>"

\* MARKET_TOPICS / BRAZILIAN_STOCKS: the configured keys, in order.
KeyList == [i \in 1..NumKeys |-> "key" \o ToString(i)]

\* The URLs a fetched article may carry; "" is article.get('url', '') of an
\* article whose url is empty or missing.
Urls == {"https://x/" \o ToString(i) : i \in 1..NumUrls}

\* Identities of the records one fetch for key i may return.
RecordIds(p, i) == IF p = "news" THEN Urls \cup {""} ELSE {KeyList[i]}

\* How many records one fetch may return: a list of articles (gnews), or
\* a dict / None (scrape_stock).
FetchSizes(p) == IF p = "news" THEN 0..MaxArticles ELSE 0..1

----------------------------------------------------------------------------
(* The dedup cache: run(), the body of `if url and url not in processed_urls`. *)

\* Mutant: the emptiness test of the url is left out.
ShouldPublish_NoEmptyCheck(p, u, cache) ==
    IF p = "news" THEN u \notin cache ELSE TRUE

\* Mutant: scraping-worker, too, drops a symbol it has already published.
ShouldPublish_FundDedup(p, u, cache) ==
    IF p = "news" THEN u # "" /\ u \notin cache ELSE u \notin delivered

\* `if url and url not in processed_urls` (gnews) / `if data` (scraping-worker,
\* which keeps no cache: a returned dict is always published).
ShouldPublish(p, u, cache) ==
    IF p = "news" THEN u # "" /\ u \notin cache ELSE TRUE

\* Mutant: the capacity check fires one entry early.
NeedsPrune_Early(S) == Cardinality(S) > CacheCeiling - 1

\* Mutant: the capacity test is off by one.
NeedsPrune_OffByOne(S) == Cardinality(S) > CacheCeiling + 1

\* `if len(processed_urls) > 10000`
NeedsPrune(S) == Cardinality(S) > CacheCeiling

\* Mutant: the slice keeps one entry less than the floor.
Prune_Short(S) ==
    {T \in SUBSET S : Cardinality(T) = Min(CacheFloor, Cardinality(S)) - 1}

\* `set(list(processed_urls)[-5000:])`: a set has no defined order, so the
\* tail of its list is any subset of that size.
Prune(S) == {T \in SUBSET S : Cardinality(T) = Min(CacheFloor, Cardinality(S))}

\* `processed_urls.add(url)` and the capacity check after it: the caches
\* that may result.
Mark(S, u) == IF NeedsPrune(S \cup {u}) THEN Prune(S \cup {u}) ELSE {S \cup {u}}

----------------------------------------------------------------------------
(* connect_rabbitmq *)

InConnect == pc \in {"init", "reconnect"}

\* Mutant: the last attempt is taken to be the one after max_retries.
IsLastAttempt_OneMore(a) == ~(a < max_retries)

\* `if attempt < max_retries - 1: sleep ... else: raise`
IsLastAttempt(a) == ~(a < max_retries - 1)

\* The try body ran to `return`: connection and channel opened, exchange and
\* queue declared and bound.  The connection held before is not closed.
AttemptOk ==
    /\ brokerUp
    /\ connOpen' = TRUE
    /\ chanOpen' = TRUE
    /\ orphanOpen' = (orphanOpen \/ connOpen)
    /\ declared' = TRUE

\* The try body raised: either BlockingConnection() itself (nothing assigned),
\* or a later call (channel(), exchange_declare, queue_declare, queue_bind)
\* after self.connection was replaced by a new open connection.
AttemptRaises ==
    \/ /\ ~brokerUp
       /\ UNCHANGED conn
    \/ /\ brokerUp
       /\ connOpen' = TRUE
       /\ chanOpen' = FALSE
       /\ orphanOpen' = (orphanOpen \/ connOpen)
       /\ UNCHANGED declared

\* Mutant: the retry does not sleep.
SleepAndRetry_NoDelay ==
    /\ ~IsLastAttempt(attempt)
    /\ attempt' = attempt + 1
    /\ UNCHANGED <<slept, connectOutcome>>

\* except handler, not the last attempt: time.sleep(retry_delay), next attempt.
SleepAndRetry ==
    /\ ~IsLastAttempt(attempt)
    /\ attempt' = attempt + 1
    /\ slept' = slept + retry_delay
    /\ UNCHANGED connectOutcome

\* except handler, last attempt: `raise`.
GiveUp ==
    /\ IsLastAttempt(attempt)
    /\ connectOutcome' = "raised"
    /\ UNCHANGED <<attempt, slept>>

\* The locals of connect_rabbitmq are gone once run() goes on after the call.
Forget ==
    /\ attempt' = 0
    /\ slept' = 0
    /\ connectOutcome' = "none"

\* close(): closes self.connection when it is open; scraping-worker also
\* closes the HTTP session.  A connection no longer referenced is not closed.
Close ==
    /\ connOpen' = FALSE
    /\ chanOpen' = FALSE
    /\ sessionOpen' = FALSE
    /\ UNCHANGED <<orphanOpen, declared>>

----------------------------------------------------------------------------
Init ==
    /\ pipeline \in Pipelines
    /\ pc = "init"
    /\ brokerUp \in BOOLEAN
    /\ connOpen = FALSE
    /\ chanOpen = FALSE
    /\ orphanOpen = FALSE
    /\ declared = FALSE
    /\ sessionOpen = (pipeline = "fund")
    /\ attempt = 0
    /\ slept = 0
    /\ connectOutcome = "none"
    /\ k = 0
    /\ remaining = 0
    /\ url = Unbound
    /\ processed_urls = {}
    /\ err = "none"
    /\ exitCode = 0
    /\ invoked = {}
    /\ delivered = {}
    /\ publishOutcome = "none"
    /\ reconnects = 0
    /\ lastMark = "none"
    /\ lastSleep = 0
    /\ interrupted = FALSE

(* __init__: connect_rabbitmq succeeds; __main__ then calls run(). *)
InitConnectOk ==
    /\ pc = "init"
    /\ AttemptOk
    /\ connectOutcome' = "ok"
    /\ pc' = "fetch"
    /\ k' = 1
    /\ UNCHANGED <<pipeline, brokerUp, sessionOpen, attempt, slept, remaining,
                   url, processed_urls, err, exitCode, hist,
                   lastSleep, interrupted>>

(* __init__: an attempt fails and is retried after the delay. *)
InitConnectRetry ==
    /\ pc = "init"
    /\ AttemptRaises
    /\ SleepAndRetry
    /\ UNCHANGED <<pipeline, pc, brokerUp, sessionOpen, k, remaining, url,
                   processed_urls, err, exitCode, hist,
                   lastSleep, interrupted>>

\* Mutant: the constructor swallows the failure and run() starts.
InitConnectFatal_Swallowed ==
    /\ pc = "init"
    /\ AttemptRaises
    /\ GiveUp
    /\ pc' = "fetch"
    /\ k' = 1
    /\ UNCHANGED <<pipeline, brokerUp, sessionOpen, remaining, url,
                   processed_urls, err, exitCode, hist,
                   lastSleep, interrupted>>

(* __init__: the last attempt fails; the exception leaves the constructor,  *)
(* which __main__ calls outside its try/finally: close() is not run.        *)
InitConnectFatal ==
    /\ pc = "init"
    /\ AttemptRaises
    /\ GiveUp
    /\ pc' = "exited"
    /\ exitCode' = 1
    /\ UNCHANGED <<pipeline, brokerUp, sessionOpen, k, remaining, url,
                   processed_urls, err, hist,
                   lastSleep, interrupted>>

----------------------------------------------------------------------------
(* run(): the `while True` loop. *)

LoopPcs == {"fetch", "articles", "reconnect", "key_sleep", "cycle_sleep"}

(* fetch_news(topic) / scrape_stock(symbol): the records returned; an      *)
(* exception inside is caught there and gives [] / None.                    *)
Fetch ==
    /\ pc = "fetch"
    /\ \E n \in FetchSizes(pipeline) : remaining' = n
    /\ pc' = "articles"
    /\ Forget
    /\ UNCHANGED <<pipeline, brokerUp, conn, sessionOpen, k, url,
                   processed_urls, err, exitCode, hist, lastSleep,
                   interrupted>>

\* Back in run() after publish returned for record u: gnews adds the url to
\* the cache and checks its size; scraping-worker has nothing to do.  `inv`
\* is the history of identities passed to publish, u included.
AfterPublish(u, inv) ==
    IF pipeline = "news"
       THEN /\ processed_urls' \in Mark(processed_urls, u)
            /\ IF NeedsPrune(processed_urls \cup {u})
                  THEN lastMark' = "pruned" /\ invoked' = {}
                  ELSE lastMark' = "added" /\ invoked' = inv
       ELSE /\ invoked' = inv
            /\ UNCHANGED <<processed_urls, lastMark>>

(* `for article in articles`: the next record does not pass the filter     *)
(* (`if url and url not in processed_urls`) and is skipped.                 *)
SkipRecord ==
    /\ pc = "articles"
    /\ remaining > 0
    /\ \E a \in RecordIds(pipeline, k) :
          /\ ~ShouldPublish(pipeline, a, processed_urls)
          /\ url' = a
    /\ remaining' = remaining - 1
    /\ publishOutcome' = "none"
    /\ reconnects' = 0
    /\ Forget
    /\ UNCHANGED <<pipeline, pc, brokerUp, conn, sessionOpen, k,
                   processed_urls, err, exitCode, invoked, delivered, lastMark,
                   lastSleep, interrupted>>

(* The next record passes the filter; publish_news / publish_data is called *)
(* and basic_publish succeeds; back in run() the record is marked.  Nothing *)
(* between the filter and basic_publish looks at the connection.            *)
PublishWritten ==
    /\ pc = "articles"
    /\ remaining > 0
    /\ chanOpen
    /\ \E a \in RecordIds(pipeline, k) :
          /\ ShouldPublish(pipeline, a, processed_urls)
          /\ url' = a
          /\ delivered' = delivered \cup {a}
          /\ AfterPublish(a, invoked \cup {a})
    /\ remaining' = remaining - 1
    /\ publishOutcome' = "written"
    /\ reconnects' = 0
    /\ Forget
    /\ UNCHANGED <<pipeline, pc, brokerUp, conn, sessionOpen, k, err,
                   exitCode,
                   lastSleep, interrupted>>

(* The next record passes the filter; basic_publish raises; the except      *)
(* handler of publish calls connect_rabbitmq.                               *)
\* Mutant: a failed basic_publish is only logged, without a reconnect.
PublishFails_NoReconnect ==
    /\ pc = "articles"
    /\ remaining > 0
    /\ ~chanOpen
    /\ \E a \in RecordIds(pipeline, k) :
          /\ ShouldPublish(pipeline, a, processed_urls)
          /\ url' = a
          /\ invoked' = invoked \cup {a}
    /\ remaining' = remaining - 1
    /\ publishOutcome' = "dropped"
    /\ reconnects' = 0
    /\ Forget
    /\ UNCHANGED <<pipeline, pc, brokerUp, conn, sessionOpen, k,
                   processed_urls, err, exitCode, delivered, lastMark,
                   lastSleep, interrupted>>

PublishFails ==
    /\ pc = "articles"
    /\ remaining > 0
    /\ ~chanOpen
    /\ \E a \in RecordIds(pipeline, k) :
          /\ ShouldPublish(pipeline, a, processed_urls)
          /\ url' = a
          /\ invoked' = invoked \cup {a}
    /\ remaining' = remaining - 1
    /\ pc' = "reconnect"
    /\ attempt' = 0
    /\ slept' = 0
    /\ connectOutcome' = "none"
    /\ publishOutcome' = "none"
    /\ reconnects' = 1
    /\ UNCHANGED <<pipeline, brokerUp, conn, sessionOpen, k, processed_urls,
                   err, exitCode, delivered, lastMark,
                   lastSleep, interrupted>>

\* Mutant: after the reconnect the record is written on the fresh channel.
ReconnectOk_ThenWrites ==
    /\ pc = "reconnect"
    /\ AttemptOk
    /\ connectOutcome' = "ok"
    /\ publishOutcome' = "written"
    /\ delivered' = delivered \cup {url}
    /\ pc' = "articles"
    /\ AfterPublish(url, invoked)
    /\ UNCHANGED <<pipeline, brokerUp, sessionOpen, attempt, slept, k, remaining,
                   url, err, exitCode, reconnects,
                   lastSleep, interrupted>>

(* The reconnect succeeds: publish returns without having written. *)
ReconnectOk ==
    /\ pc = "reconnect"
    /\ AttemptOk
    /\ connectOutcome' = "ok"
    /\ publishOutcome' = "dropped"
    /\ pc' = "articles"
    /\ AfterPublish(url, invoked)
    /\ UNCHANGED <<pipeline, brokerUp, sessionOpen, attempt, slept, k, remaining,
                   url, err, exitCode, delivered, reconnects,
                   lastSleep, interrupted>>

ReconnectRetry ==
    /\ pc = "reconnect"
    /\ AttemptRaises
    /\ SleepAndRetry
    /\ UNCHANGED <<pipeline, pc, brokerUp, sessionOpen, k, remaining, url,
                   processed_urls, err, exitCode, hist,
                   lastSleep, interrupted>>

(* The reconnect's last attempt fails: the exception leaves the except      *)
(* handler of publish and reaches `except Exception` of run().              *)
\* Mutant: the exhausted reconnect is not caught by run().
ReconnectFatal_Escapes ==
    /\ pc = "reconnect"
    /\ AttemptRaises
    /\ GiveUp
    /\ publishOutcome' = "raised"
    /\ pc' = "exited"
    /\ err' = "connect"
    /\ exitCode' = 1
    /\ UNCHANGED <<pipeline, brokerUp, sessionOpen, k, remaining, url,
                   processed_urls, invoked, delivered, reconnects,
                   lastMark, lastSleep, interrupted>>

ReconnectFatal ==
    /\ pc = "reconnect"
    /\ AttemptRaises
    /\ GiveUp
    /\ publishOutcome' = "raised"
    /\ pc' = "cooldown"
    /\ err' = "connect"
    /\ UNCHANGED <<pipeline, brokerUp, sessionOpen, k, remaining, url,
                   processed_urls, exitCode, invoked, delivered, reconnects,
                   lastMark,
                   lastSleep, interrupted>>

(* The records of this key are exhausted. *)
\* Mutant: a key whose records are used up ends the loop.
EndKey_Breaks ==
    /\ pc = "articles"
    /\ remaining = 0
    /\ Close
    /\ pc' = "exited"
    /\ exitCode' = 0
    /\ UNCHANGED <<pipeline, brokerUp, retry, k, remaining, url,
                   processed_urls, err, hist, lastSleep, interrupted>>

EndKey ==
    /\ pc = "articles"
    /\ remaining = 0
    /\ pc' = "key_sleep"
    /\ Forget
    /\ UNCHANGED <<pipeline, brokerUp, conn, sessionOpen, k, remaining,
                   url, processed_urls, err, exitCode, hist,
                   lastSleep, interrupted>>

(* time.sleep(2) / time.sleep(3), then the next key or the end of the for. *)
KeySleep ==
    /\ pc = "key_sleep"
    /\ IF k < NumKeys
          THEN k' = k + 1 /\ pc' = "fetch"
          ELSE pc' = "cycle_sleep" /\ UNCHANGED k
    /\ Forget
    /\ lastSleep' = KeyDelay(pipeline)
    /\ UNCHANGED <<pipeline, brokerUp, conn, sessionOpen, remaining, url,
                   processed_urls, err, exitCode, hist,
                   interrupted>>

(* time.sleep(CHECK_INTERVAL), then the next pass of `while True`. *)
CycleSleep ==
    /\ pc = "cycle_sleep"
    /\ pc' = "fetch"
    /\ k' = 1
    /\ Forget
    /\ lastSleep' = CHECK_INTERVAL
    /\ UNCHANGED <<pipeline, brokerUp, conn, sessionOpen, remaining, url,
                   processed_urls, err, exitCode, hist,
                   interrupted>>

(* `except Exception`: time.sleep(30), then the next pass of `while True`. *)
Cooldown ==
    /\ pc = "cooldown"
    /\ pc' = "fetch"
    /\ k' = 1
    /\ err' = "none"
    /\ Forget
    /\ lastSleep' = cooldown_delay
    /\ UNCHANGED <<pipeline, brokerUp, conn, sessionOpen, remaining, url,
                   processed_urls, exitCode, hist,
                   interrupted>>

----------------------------------------------------------------------------
(* KeyboardInterrupt (the external interrupt). *)

(* Inside the try of run(): `except KeyboardInterrupt: break`, run()        *)
(* returns, the finally of __main__ calls close(), the process ends.        *)
InterruptInLoop ==
    /\ pc \in LoopPcs
    /\ Close
    /\ pc' = "exited"
    /\ exitCode' = 0
    /\ interrupted' = TRUE
    /\ UNCHANGED <<pipeline, brokerUp, retry, k, remaining, url,
                   processed_urls, err, hist,
                   lastSleep>>

(* Inside the `except Exception` handler (the 30 s sleep): no clause of the *)
(* same try catches it; it leaves run(), the finally calls close(), and     *)
(* the interpreter ends with the uncaught KeyboardInterrupt.                *)
InterruptInCooldown ==
    /\ pc = "cooldown"
    /\ Close
    /\ pc' = "exited"
    /\ exitCode' = 1
    /\ interrupted' = TRUE
    /\ UNCHANGED <<pipeline, brokerUp, retry, k, remaining, url,
                   processed_urls, err, hist,
                   lastSleep>>

(* Inside __init__: the constructor call is outside the try of __main__.    *)
InterruptInInit ==
    /\ pc = "init"
    /\ pc' = "exited"
    /\ exitCode' = 1
    /\ interrupted' = TRUE
    /\ UNCHANGED <<pipeline, brokerUp, conn, sessionOpen, retry, k, remaining,
                   url, processed_urls, err, hist,
                   lastSleep>>

----------------------------------------------------------------------------
(* The broker. *)

BrokerDown ==
    /\ pc # "exited"
    /\ brokerUp
    /\ brokerUp' = FALSE
    /\ connOpen' = FALSE
    /\ chanOpen' = FALSE
    /\ orphanOpen' = FALSE
    /\ UNCHANGED <<pipeline, pc, declared, sessionOpen, retry, k, remaining, url,
                   processed_urls, err, exitCode, hist,
                   lastSleep, interrupted>>

BrokerBack ==
    /\ pc # "exited"
    /\ ~brokerUp
    /\ brokerUp' = TRUE
    /\ UNCHANGED <<pipeline, pc, conn, sessionOpen, retry, k, remaining, url,
                   processed_urls, err, exitCode, hist,
                   lastSleep, interrupted>>

(* The broker closes the channel alone (a channel-level error); the         *)
(* connection stays open.                                                   *)
ChannelClosed ==
    /\ pc # "exited"
    /\ chanOpen
    /\ chanOpen' = FALSE
    /\ UNCHANGED <<pipeline, pc, brokerUp, connOpen, orphanOpen, declared,
                   sessionOpen, retry, k, remaining, url, processed_urls, err,
                   exitCode, hist,
                   lastSleep, interrupted>>

(* The connection object dropped by `self.connection = ...` is finalized   *)
(* by the interpreter at some later time, which closes its socket.          *)
OrphanCollected ==
    /\ pc # "exited"
    /\ orphanOpen
    /\ orphanOpen' = FALSE
    /\ UNCHANGED <<pipeline, pc, brokerUp, connOpen, chanOpen, declared,
                   sessionOpen, retry, k, remaining, url, processed_urls, err,
                   exitCode, hist, lastSleep, interrupted>>

Next ==
    \/ InitConnectOk
    \/ InitConnectRetry
    \/ InitConnectFatal
    \/ Fetch
    \/ SkipRecord
    \/ PublishWritten
    \/ PublishFails
    \/ ReconnectOk
    \/ ReconnectRetry
    \/ ReconnectFatal
    \/ EndKey
    \/ KeySleep
    \/ CycleSleep
    \/ Cooldown
    \/ InterruptInLoop
    \/ InterruptInCooldown
    \/ InterruptInInit
    \/ BrokerDown
    \/ BrokerBack
    \/ ChannelClosed
    \/ OrphanCollected

Spec == Init /\ [][Next]_vars

\* The process keeps running: a connection attempt in progress completes.
ConnectStep ==
    \/ InitConnectOk
    \/ InitConnectRetry
    \/ InitConnectFatal
    \/ ReconnectOk
    \/ ReconnectRetry
    \/ ReconnectFatal

FairSpec == Spec /\ WF_vars(ConnectStep)

(* The steps of run(): a fetch returns, a record is handled, a sleep ends. *)
RunStep ==
    \/ Fetch
    \/ SkipRecord
    \/ PublishWritten
    \/ PublishFails
    \/ EndKey
    \/ KeySleep
    \/ CycleSleep
    \/ Cooldown

(* The process keeps running: neither connect_rabbitmq() nor run() stops   *)
(* while it has a step to take.                                             *)
LiveSpec == Spec /\ WF_vars(ConnectStep) /\ WF_vars(RunStep)

----------------------------------------------------------------------------
(* Claims *)

\* A step that calls publish_news / publish_data for the record `url'`;
\* basic_publish is attempted in it (it returns or raises).
PublishInvoked ==
    /\ pc = "articles"
    /\ remaining' = remaining - 1
    /\ (publishOutcome' = "written" \/ pc' = "reconnect")

\* C1: news pipeline: with no prune of the cache in between, publish is
\* invoked at most once for an identity, however often the fetcher returns
\* it: publish is never entered for an identity already passed to publish
\* since the last prune.
C1_PublishedOnce ==
    [][(pipeline = "news" /\ PublishInvoked) => url' \notin invoked]_vars

C3_CacheBounded ==
    lastMark # "none" => Cardinality(processed_urls) <= CacheCeiling

\* C3 witness: a mark that pushed the cache over the ceiling has pruned it.
C3_Witness ==
    lastMark = "pruned" /\ Cardinality(processed_urls) = CacheFloor

\* C4: a record whose identity is empty or missing never reaches publish
\* and is never added to the dedup cache.
C4_EmptyIdentityDropped ==
    /\ (pc = "reconnect" \/ publishOutcome # "none") => url # ""
    /\ "" \notin invoked
    /\ "" \notin delivered
    /\ "" \notin processed_urls

\* C4 witness: a record with an empty url was taken from the fetch result
\* and skipped, after another record had been published.
C4_Witness ==
    /\ pipeline = "news" /\ pc = "articles" /\ url = ""
    /\ publishOutcome = "none" /\ delivered # {}

\* C5: every connect() makes at most 5 attempts, sleeps the 5 s delay
\* between consecutive attempts, returns on the first attempt that succeeds
\* (exchange and bound queue declared), raises only when the 5th attempt
\* fails, and terminates.
C5_ConnectBounded ==
    /\ [](/\ attempt + 1 <= 5
          /\ slept = 5 * attempt
          /\ connectOutcome = "raised" => attempt + 1 = 5
          /\ connectOutcome = "ok" => declared)
    /\ [][(InConnect /\ chanOpen') =>
            (~InConnect' /\ connectOutcome' = "ok" /\ connOpen' /\ declared'
             /\ attempt' = attempt)]_vars
    /\ (InConnect ~> ~InConnect)

\* C5 witness: a connect() returned on a later attempt, after failed ones.
C5_Witness ==
    connectOutcome = "ok" /\ attempt = 2 /\ slept = 10

\* C6 as stated: when every attempt fails there are 5 retries (6 attempts),
\* each after a 5 s delay, and the error is raised on the 6th failure.
C6_SixthFailure ==
    connectOutcome = "raised" => (attempt + 1 = 6 /\ slept = 5 * 5)

\* C6 as amended: when every attempt fails there are 5 attempts in all
\* (4 retries), each retry after a 5 s delay, and the error is raised on
\* the 5th failure.
C6_FifthFailure ==
    connectOutcome = "raised" => (attempt + 1 = 5 /\ slept = 4 * 5)

\* C6 witness: a connect() whose attempts all failed has raised.
C6_Witness ==
    connectOutcome = "raised" /\ ~InConnect

\* C7: a publish whose broker write failed has called connect() exactly
\* once and has not let an exception reach its caller.
C7_PublishNeverRaises ==
    publishOutcome \in {"dropped", "raised"} =>
        (reconnects = 1 /\ publishOutcome # "raised")

\* C8: a fetch or publish failure never aborts the cycle: the for loop over
\* the keys is never abandoned (to the cooldown) while a configured key is
\* still to be fetched in this cycle.
C8_CycleNotAborted ==
    pc = "cooldown" => k = NumKeys

\* C9 as stated: a broker write is attempted only while the connection and
\* the channel are open.
C9_WriteOnlyWhenOpen ==
    [][PublishInvoked => (connOpen /\ chanOpen)]_vars

\* C9 as amended: publish does not check the connection first: the write is
\* attempted on the channel as it is; when that channel is not open the
\* write fails, connect() runs only after the failure, and the record is
\* not written on the fresh channel (it is dropped).
C9_ReconnectAfterFailure ==
    /\ [][(PublishInvoked /\ ~chanOpen) =>
            (pc' = "reconnect" /\ reconnects' = 1 /\ delivered' = delivered)]_vars
    /\ [][pc = "reconnect" => delivered' = delivered]_vars
    /\ [](publishOutcome = "dropped" => reconnects = 1)

\* C9 witness: a publish found the channel closed, reconnected, and returned
\* with a fresh open channel and the record undelivered.
C9_Witness ==
    publishOutcome = "dropped" /\ chanOpen /\ url \notin delivered
        /\ pc = "articles"

\* C10: the loop is entered, and a fetch or publish happens, only after a
\* connect() has succeeded; when the startup connect() exhausts its retries
\* the process ends with a non-zero status before the first fetch.
C10_NoHalfInitializedStart ==
    /\ (pc \in LoopPcs \cup {"cooldown"}) => declared
    /\ (k > 0 \/ url # Unbound \/ invoked # {} \/ delivered # {}) => declared
    /\ ~declared => (~connOpen \/ ~chanOpen)
    /\ (connectOutcome = "raised" /\ ~declared) =>
           (pc = "exited" /\ exitCode # 0 /\ k = 0 /\ url = Unbound)

\* C10 witness: the startup connect() used up its attempts and the process
\* has ended.
C10_Witness ==
    connectOutcome = "raised" /\ ~declared /\ pc = "exited" /\ exitCode = 1

\* C11: once run() has started, the process ends only after a
\* KeyboardInterrupt was delivered; an exception raised inside a cycle is
\* caught, run() sleeps the 30 second cooldown and starts the next cycle at
\* the first key.
C11_LoopLeavesOnlyOnInterrupt ==
    /\ []((pc = "exited" /\ k > 0) => interrupted)
    /\ [][(err = "none" /\ err' # "none") => pc' = "cooldown"]_vars
    /\ [][(pc = "cooldown" /\ pc' # "cooldown") =>
            \/ interrupted'
            \/ (pc' = "fetch" /\ k' = 1 /\ lastSleep' = 30 /\ err' = "none")]_vars

\* C11 witness: a reconnect that used up its attempts was caught, the
\* cooldown was slept and the loop is about to fetch again.
C11_Witness ==
    pc = "fetch" /\ lastSleep = 30 /\ publishOutcome = "raised" /\ k = 1

\* C12: a KeyboardInterrupt delivered after run() has started ends the
\* process with status 0, with the connection and the HTTP session closed.
C12_InterruptExitsZero ==
    (pc = "exited" /\ interrupted /\ k > 0) =>
        (exitCode = 0 /\ ~connOpen /\ ~chanOpen /\ ~sessionOpen)

\* C13: when the process has ended, no connection it opened and no HTTP
\* session is still open.
C13_AllReleasedAtExit ==
    pc = "exited" => (~connOpen /\ ~orphanOpen /\ ~sessionOpen)

\* C14: every url in the dedup cache belongs to a record whose
\* basic_publish succeeded.
C14_CacheOnlyDelivered ==
    processed_urls \subseteq delivered

\* C15: a fetch that returns nothing for a key does not end the loop: unless
\* the process is interrupted or a reconnect is exhausted (the broker is not
\* reachable), the same key is fetched again; and when a fetch has returned
\* records, each of them is taken, and a record that passes the filter
\* while the channel is open is written to the broker.
C15_PublishedAfterEmptyFetch ==
    /\ \A i \in 1..NumKeys :
          (pc = "articles" /\ remaining = 0 /\ k = i)
              ~> ((pc = "fetch" /\ k = i) \/ interrupted \/ pc = "cooldown")
    /\ \A n \in 1..MaxArticles :
          (pc = "articles" /\ remaining = n) ~> (remaining < n \/ interrupted)
    /\ [][(/\ pc = "articles" /\ remaining' = remaining - 1 /\ chanOpen
            /\ (pipeline = "news" =>
                   (url' # "" /\ url' \notin processed_urls)))
           => (publishOutcome' = "written" /\ url' \in delivered')]_vars

\* C15 witness: every fetch of the first cycle returned nothing, the
\* check-interval sleep is over, and the second fetch of the first key has
\* returned a record while the channel is open.
C15_Witness ==
    /\ pc = "articles" /\ k = 1 /\ remaining > 0
    /\ url = Unbound /\ lastSleep = CHECK_INTERVAL /\ chanOpen

\* A mark that prunes: the cache is at the ceiling and a url is added to it.
PruneStep ==
    /\ Cardinality(processed_urls) = CacheCeiling
    /\ url' \notin processed_urls
    /\ lastMark' = "pruned"

\* C16: a url that is in the dedup cache stays in it in every later state
\* until a step that prunes; a url enters the cache only as the url of the
\* record just handed to publish; after a mark that did not prune the
\* marked url is in the cache.
C16_SeenUntilPrune ==
    /\ [][(\E u \in processed_urls : u \notin processed_urls') => PruneStep]_vars
    /\ [][\A u \in processed_urls' \ processed_urls : u = url']_vars
    /\ [][(processed_urls' # processed_urls /\ lastMark' = "added")
            => (url' \in processed_urls'
                  /\ processed_urls \subseteq processed_urls')]_vars

\* C16 witness: the cache is full of urls marked one after the other without
\* a prune, and the cycle has gone on to its check-interval sleep.
C16_Witness ==
    /\ pipeline = "news" /\ Cardinality(processed_urls) = CacheCeiling
    /\ lastMark = "added" /\ pc = "cycle_sleep"

\* A record that passes the filter is taken, i.e. publish is called.
PublishCalled ==
    /\ pc = "articles"
    /\ remaining' = remaining - 1
    /\ pipeline = "news" => (url' # "" /\ url' \notin processed_urls)

\* The broker is reachable and serves the connection it has; nobody has
\* interrupted the process.
BrokerReachable ==
    brokerUp /\ ~interrupted /\ (connOpen => chanOpen)

\* C17: if from some time on the broker stays reachable and the process is
\* not interrupted, and records keep coming to publish, then a lost
\* connection is opened again (by the reconnect of a failed publish, the
\* only place that opens one) and stays open, and records published later
\* are written to the broker.
C17_RecoversThroughPublish ==
    (<>[]BrokerReachable /\ []<><<PublishCalled>>_vars) =>
        /\ <>[]chanOpen
        /\ []<><<PublishCalled /\ publishOutcome' = "written"
                    /\ url' \in delivered'>>_vars

\* C17 witness: a record was dropped by a publish that found the channel
\* closed and reconnected, and a later record has been written on the new
\* channel.
C17_Witness ==
    /\ pipeline = "news" /\ processed_urls \ delivered # {}
    /\ publishOutcome = "written" /\ url \in delivered
    /\ chanOpen /\ brokerUp /\ ~orphanOpen

\* C18: at no time are two connections opened by the instance open
\* together: the one self.connection refers to and one it referred to
\* before.
C18_OneConnection ==
    ~(connOpen /\ orphanOpen)

\* C19: while no exception reaches run(), the keys are fetched one after
\* the other in list order, each once per cycle: a fetch is followed by the
\* handling of its records and then by the per-key sleep (2 s for news, 3 s
\* for fundamentals) whether or not it returned records; the fetch of the
\* next key follows that sleep; after the sleep of the last key comes the
\* check-interval sleep, once, and then the fetch of the first key.
C19_CycleOrder ==
    /\ [][(pc = "fetch" /\ pc' # "fetch")
            => (pc' \in {"articles", "exited"} /\ k' = k)]_vars
    /\ [][(pc = "articles" /\ pc' \notin {"articles", "reconnect", "exited"})
            => (remaining = 0 /\ pc' = "key_sleep" /\ k' = k)]_vars
    /\ [][(pc = "key_sleep" /\ pc' \notin {"key_sleep", "exited"}) =>
            /\ lastSleep' = (IF pipeline = "news" THEN 2 ELSE 3)
            /\ IF k < NumKeys
                  THEN pc' = "fetch" /\ k' = k + 1
                  ELSE pc' = "cycle_sleep" /\ k' = k]_vars
    /\ [][(pc = "cycle_sleep" /\ pc' \notin {"cycle_sleep", "exited"}) =>
            (pc' = "fetch" /\ k' = 1 /\ lastSleep' = 300)]_vars
    /\ [][(pc' = "cycle_sleep" /\ pc # "cycle_sleep")
            => (pc = "key_sleep" /\ k = NumKeys)]_vars
    /\ [][(pc' = "fetch" /\ pc # "fetch" /\ k' > 1) => pc = "key_sleep"]_vars
    /\ [](pc \in LoopPcs => k \in 1..NumKeys)

\* C19 witness: a whole cycle went by, the last key has had its sleep, the
\* check-interval sleep is over and the first key is about to be fetched.
C19_Witness ==
    pc = "fetch" /\ k = 1 /\ lastSleep = CHECK_INTERVAL /\ err = "none"
        /\ pipeline = "fund" /\ invoked = {KeyList[1]}

\* A step that marks: publish returned (written, or dropped after a
\* reconnect) in the news pipeline.
MarkStep ==
    /\ pipeline = "news"
    /\ \/ pc = "articles" /\ remaining' = remaining - 1
            /\ publishOutcome' = "written" /\ url' \in delivered'
       \/ pc = "reconnect" /\ pc' = "articles"

\* C20: the cache changes only in a mark; the mark prunes exactly when the
\* cache with the new url in it is larger than the ceiling; a prune leaves
\* exactly the floor number of urls, each of which was in the cache (the new
\* url included) right before the prune; a mark that does not prune leaves
\* the cache with the new url added.
C20_PruneExact ==
    /\ [][~MarkStep => processed_urls' = processed_urls]_vars
    /\ [][MarkStep =>
            IF Cardinality(processed_urls \cup {url'}) > CacheCeiling
               THEN /\ lastMark' = "pruned"
                    /\ Cardinality(processed_urls') = CacheFloor
                    /\ processed_urls' \subseteq processed_urls \cup {url'}
               ELSE /\ lastMark' = "added"
                    /\ processed_urls' = processed_urls \cup {url'}]_vars

\* C20 witness: a prune has just run and has discarded the url whose mark
\* set it off.
C20_Witness ==
    /\ lastMark = "pruned" /\ Cardinality(processed_urls) = CacheFloor
    /\ url # "" /\ url \notin processed_urls /\ publishOutcome = "written"

====
